---- MODULE Spec2Model ----
(***************************************************************************)
(* Model of scraper-fisch/crop-islands.py: the script that crops the named *)
(* islands out of the Fisch world map and makes the ocean transparent.     *)
(*                                                                         *)
(* Three specifications share this module:                                 *)
(*   Spec     the whole run of the script (makedirs, open, crop loop,      *)
(*            'Done'), over the real region table, with the content of a   *)
(*            crop kept as a record (its box, its size, what was done);    *)
(*   SpecPix  remove_ocean on small crops, pixel by pixel;                 *)
(*   SpecGeo  the border slices of remove_ocean as sets of positions, for  *)
(*            crop sizes large enough to reach the 8-pixel cap.            *)
(***************************************************************************)
EXTENDS Integers, Sequences, FiniteSets

VARIABLES
    \* ---- the environment of a run
    mapFile,      \* the file at MAP_PATH: NoMap, or the size the loader returns
    order,        \* the order of the entries of ISLANDS (a permutation of 1..17)
    emptyRaises,  \* where the imaging library rejects a zero-area image
    dirState,     \* OUT_DIR: "absent", "present" or "blocked" (cannot be created)
    files,        \* OUT_DIR's content: file name -> content, or NoFile
    \* ---- the script's own state
    pc,           \* position in the script
    W, H,         \* img.size
    i,            \* position of the crop loop in the table
    box,          \* <<x1, y1, x2, y2>> of the current region
    crop,         \* the current crop
    written,      \* names saved by this run, in order
    reported,     \* the count printed by the last line
    abortCause,   \* which step raised
    \* ---- history
    run,          \* how many times the script has been started
    dir0, files0, \* OUT_DIR as the first run found it
    prevRun,      \* OUT_DIR as the previous run left it
    \* ---- remove_ocean on pixels (SpecPix)
    ppc, crop_img, arr, edge_pixels, ocean_color, result,
    \* ---- border slices as positions (SpecGeo)
    gpc, gh, gw, edge_index

envVars  == <<mapFile, order, emptyRaises>>
fsVars   == <<dirState, files>>
progVars == <<pc, W, H, i, box, crop, written, reported, abortCause>>
histVars == <<run, dir0, files0, prevRun>>
pipeVars == <<envVars, fsVars, progVars, histVars>>
pixVars  == <<ppc, crop_img, arr, edge_pixels, ocean_color, result>>
geoVars  == <<gpc, gh, gw, edge_index>>
vars     == <<pipeVars, pixVars, geoVars>>

Max(a, b) == IF a >= b THEN a ELSE b
Min(a, b) == IF a <= b THEN a ELSE b

(***************************************************************************)
(* The region table, in the order the dict literal lists it.               *)
(***************************************************************************)
Island(n, x, y, halfw, halfh) == [name |-> n, cx |-> x, cy |-> y, hw |-> halfw, hh |-> halfh]

ISLANDS ==
    << Island("northern-caves",         660,  246, 400, 300),
       Island("sunstone-island",        991,  553, 320, 250),
       Island("statue-of-sovereignty", 2092,  660, 180, 230),
       Island("the-laboratory",        1816,  830, 180, 160),
       Island("the-arch",              2862,  676, 220, 220),
       Island("birch-cay",             3192,  369, 260, 220),
       Island("mushgrove-swamp",       4293,  369, 560, 420),
       Island("harvesters-spike",      1211, 1352, 210, 250),
       Island("roslit-bay",             881, 1290, 460, 360),
       Island("moosewood",             2312, 1290, 600, 420),
       Island("lushgrove",             3082,  860, 320, 270),
       Island("earmark-island",        3082, 1475, 200, 160),
       Island("cursed-isle",           3633, 1536, 430, 360),
       Island("forsaken-shores",        660, 1997, 530, 430),
       Island("terrapin-island",       2092, 2089, 600, 440),
       Island("snowcap-island",        4128, 1997, 580, 460),
       Island("ancient-isle",          5229, 1075, 360, 400) >>

NumIslands == Len(ISLANDS)
RegionNames == { ISLANDS[k].name : k \in 1..NumIslands }

\* f'{name}.png' joined to OUT_DIR: the file is identified by the region name.
OutPath(name) == name

(***************************************************************************)
(* Values that stand for "nothing".                                        *)
(***************************************************************************)
NoFile == [kind |-> "none"]
NoCrop == [kind |-> "none"]
NoBox  == <<0, 0, 0, 0>>
NoMap  == <<0, 0>>                   \* no readable image at MAP_PATH
Stale  == [kind |-> "stale"]        \* a file some earlier, different tool left behind
Truncated == [kind |-> "truncated"] \* a file opened for writing whose save raised

FileNames == RegionNames \cup {"notes.txt"}

(***************************************************************************)
(* Line 76-77: the clamped bounds of a region in a W x H image.            *)
(***************************************************************************)
Bounds(r, w, h) ==
    << Max(0, r.cx - r.hw), Max(0, r.cy - r.hh),
       Min(w, r.cx + r.hw), Min(h, r.cy + r.hh) >>

\* Image.crop: the size of the image it returns; a reversed box gives 0.
CropWidth(bx)  == Max(0, bx[3] - bx[1])
CropHeight(bx) == Max(0, bx[4] - bx[2])
EmptyBox(bx)   == CropWidth(bx) = 0 \/ CropHeight(bx) = 0

(***************************************************************************)
(* numpy slicing.  An index i of arr[i:j] on an axis of length n: negative *)
(* indices count from the end, and the result is clipped to 0..n.  -0 is 0 *)
(* and so counts from the start.                                           *)
(***************************************************************************)
SliceIdx(k, n) == IF k < 0 THEN Max(k + n, 0) ELSE Min(k, n)

\* The indices lo, lo+1, ..., hi-1 (none when hi <= lo).
Span(lo, hi) == { k \in 0..(hi - 1) : k >= lo }

BorderCap == 8
\* Line 42: b = min(8, h // 4, w // 4)
BorderWidth(h, w) == Min(BorderCap, Min(h \div 4, w \div 4))

TopRows(h, b)    == Span(0, SliceIdx(b, h))                   \* arr[:b]
BottomRows(h, b) == Span(SliceIdx(0 - b, h), h)               \* arr[-b:]
MidRows(h, b)    == Span(SliceIdx(b, h), SliceIdx(0 - b, h))  \* arr[b:-b]
LeftCols(w, b)   == Span(0, SliceIdx(b, w))                   \* [:, :b]
RightCols(w, b)  == Span(SliceIdx(0 - b, w), w)               \* [:, -b:]
AllCols(w)       == Span(0, w)                                \* [:, :]

\* Lines 43-48: the number of pixels of each of the four slices.
EdgeGroupSizes(h, w) ==
    LET b == BorderWidth(h, w) IN
    [ top    |-> Cardinality(TopRows(h, b))    * Cardinality(AllCols(w)),
      bottom |-> Cardinality(BottomRows(h, b)) * Cardinality(AllCols(w)),
      left   |-> Cardinality(MidRows(h, b))    * Cardinality(LeftCols(w, b)),
      right  |-> Cardinality(MidRows(h, b))    * Cardinality(RightCols(w, b)) ]

(***************************************************************************)
(* The inputs of a run.                                                    *)
(***************************************************************************)
\* Sizes the loader can return: the map the table was measured on, the other
\* resolution the project's map exists in, sizes that put one region's clamped
\* box at a width or height of 3, 0 or less, and the smallest image.
ImageSizes ==
    { <<5504, 3072>>, <<3072, 1729>>, <<4872, 3072>>, <<4869, 3072>>,
      <<4000, 3072>>, <<5504, 1652>>, <<5504, 1649>>, <<1, 1>> }

IdentityOrder == [k \in 1..NumIslands |-> k]
ReverseOrder  == [k \in 1..NumIslands |-> NumIslands + 1 - k]
Rotated(d)    == [k \in 1..NumIslands |-> ((k - 1 + d) % NumIslands) + 1]
MaxRotation == 2
Orders == {IdentityOrder, ReverseOrder} \cup { Rotated(d) : d \in 1..MaxRotation }

MaxRuns == 2

NoFiles    == [n \in FileNames |-> NoFile]
StaleFiles == [n \in FileNames |->
                 IF n \in {"moosewood", "ancient-isle", "notes.txt"} THEN Stale ELSE NoFile]

(***************************************************************************)
(* The steps of the script.                                                *)
(***************************************************************************)
\* What a freshly started script holds (module top level, before line 8).
Fresh ==
    /\ pc = "makedirs" /\ W = 0 /\ H = 0 /\ i = 0 /\ box = NoBox /\ crop = NoCrop
    /\ written = <<>> /\ reported = 0 /\ abortCause = "none"

Raise(cause) == pc' = "aborted" /\ abortCause' = cause

\* A makedirs that starts from an emptied output directory.
DirCleared(fs) == [n \in DOMAIN fs |-> NoFile]

\* Line 8: os.makedirs(OUT_DIR, exist_ok=True) leaves an existing directory and
\* what it holds alone.
DirAfterMakeDirs(fs) == fs

MakeDirs ==
    /\ pc = "makedirs"
    /\ dirState # "blocked"
    /\ dirState' = "present"
    /\ files' = DirAfterMakeDirs(files)
    /\ pc' = "open"
    /\ UNCHANGED <<W, H, i, box, crop, written, reported, abortCause>>
    /\ UNCHANGED <<envVars, histVars, pixVars, geoVars>>

MakeDirsFails ==
    /\ pc = "makedirs"
    /\ dirState = "blocked"
    /\ Raise("makedirs")
    /\ UNCHANGED <<W, H, i, box, crop, written, reported>>
    /\ UNCHANGED <<envVars, fsVars, histVars, pixVars, geoVars>>

\* Lines 10-12: Image.open(MAP_PATH).convert('RGBA'); W, H = img.size
OpenImage ==
    /\ pc = "open"
    /\ mapFile # NoMap
    /\ W' = mapFile[1] /\ H' = mapFile[2]
    /\ i' = 1
    /\ pc' = "loop"
    /\ UNCHANGED <<box, crop, written, reported, abortCause>>
    /\ UNCHANGED <<envVars, fsVars, histVars, pixVars, geoVars>>

OpenImageFails ==
    /\ pc = "open"
    /\ mapFile = NoMap
    /\ Raise("open")
    /\ UNCHANGED <<W, H, i, box, crop, written, reported>>
    /\ UNCHANGED <<envVars, fsVars, histVars, pixVars, geoVars>>

\* The region the loop is at.
Current == ISLANDS[order[i]]

\* Line 83: img.crop((x1, y1, x2, y2)), a copy of the sub-grid of img.
CropOf(r, bx) ==
    [ kind |-> "image", name |-> r.name, src |-> mapFile, box |-> bx,
      w |-> CropWidth(bx), h |-> CropHeight(bx),
      removed |-> FALSE, smoothed |-> FALSE,
      b |-> 0, groups |-> [top |-> 0, bottom |-> 0, left |-> 0, right |-> 0] ]

\* Lines 75-83: the bounds of the next region, and its crop.
CropRegion ==
    /\ pc = "loop" /\ i <= NumIslands
    /\ box' = Bounds(Current, W, H)
    /\ ~ (EmptyBox(box') /\ emptyRaises = "crop")
    /\ crop' = CropOf(Current, box')
    /\ pc' = "cropped"
    /\ UNCHANGED <<W, H, i, written, reported, abortCause>>
    /\ UNCHANGED <<envVars, fsVars, histVars, pixVars, geoVars>>

\* Image.crop raises on a box it cannot cut (right < left, lower < upper);
\* which of crop, fromarray and save rejects a zero-area image depends on the
\* library's version, so emptyRaises ranges over the three.
CropRegionFails ==
    /\ pc = "loop" /\ i <= NumIslands
    /\ box' = Bounds(Current, W, H)
    /\ EmptyBox(box') /\ emptyRaises = "crop"
    /\ Raise("empty crop")
    /\ UNCHANGED <<W, H, i, crop, written, reported>>
    /\ UNCHANGED <<envVars, fsVars, histVars, pixVars, geoVars>>

\* A remove_ocean that returns before the alpha blur.
RemoveOceanNoBlur(c) ==
    [c EXCEPT !.removed = TRUE,
              !.b = BorderWidth(c.h, c.w),
              !.groups = EdgeGroupSizes(c.h, c.w)]

\* Lines 36-71 on a crop: the border is sampled, the ocean made transparent
\* and the alpha channel blurred.
RemoveOceanOf(c) ==
    [c EXCEPT !.removed = TRUE, !.smoothed = TRUE,
              !.b = BorderWidth(c.h, c.w),
              !.groups = EdgeGroupSizes(c.h, c.w)]

\* Line 84
RemoveOcean ==
    /\ pc = "cropped"
    /\ ~ (EmptyBox(box) /\ emptyRaises = "remove_ocean")
    /\ crop' = RemoveOceanOf(crop)
    /\ pc' = "processed"
    /\ UNCHANGED <<W, H, i, box, written, reported, abortCause>>
    /\ UNCHANGED <<envVars, fsVars, histVars, pixVars, geoVars>>

\* Image.fromarray raises on an array without pixels.
RemoveOceanFails ==
    /\ pc = "cropped"
    /\ EmptyBox(box) /\ emptyRaises = "remove_ocean"
    /\ Raise("empty crop")
    /\ UNCHANGED <<W, H, i, box, crop, written, reported>>
    /\ UNCHANGED <<envVars, fsVars, histVars, pixVars, geoVars>>

\* A save that opens out for appending.
WriteFileAppend(old, new) == [kind |-> "appended", old |-> old, new |-> new]

\* Line 87: crop.save(out, 'PNG') opens out for writing, which truncates what
\* was there, and writes the image.
WriteFile(old, new) == new

\* Lines 86-88
SaveRegion ==
    /\ pc = "processed"
    /\ ~ EmptyBox(box)
    /\ files' = [files EXCEPT ![OutPath(crop.name)] = WriteFile(@, crop)]
    /\ written' = Append(written, crop.name)
    /\ i' = i + 1
    /\ pc' = "loop"
    /\ UNCHANGED <<W, H, box, crop, reported, abortCause>>
    /\ UNCHANGED <<envVars, dirState, histVars, pixVars, geoVars>>

\* The PNG writer raises on an image without pixels, after out was opened.
SaveRegionFails ==
    /\ pc = "processed"
    /\ EmptyBox(box)
    /\ files' = [files EXCEPT ![OutPath(crop.name)] = Truncated]
    /\ Raise("empty crop")
    /\ UNCHANGED <<W, H, i, box, crop, written, reported>>
    /\ UNCHANGED <<envVars, dirState, histVars, pixVars, geoVars>>

\* Line 90: print(f'\nDone: {len(ISLANDS)} islands cropped')
Finish ==
    /\ pc = "loop" /\ i > NumIslands
    /\ reported' = Len(ISLANDS)
    /\ pc' = "done"
    /\ UNCHANGED <<W, H, i, box, crop, written, abortCause>>
    /\ UNCHANGED <<envVars, fsVars, histVars, pixVars, geoVars>>

\* The developer runs the script again, on the same map and table.
Rerun ==
    /\ pc \in {"done", "aborted"}
    /\ run < MaxRuns
    /\ run' = run + 1
    /\ prevRun' = [dir |-> dirState, files |-> files, ended |-> pc]
    /\ pc' = "makedirs" /\ W' = 0 /\ H' = 0 /\ i' = 0 /\ box' = NoBox
    /\ crop' = NoCrop /\ written' = <<>> /\ reported' = 0 /\ abortCause' = "none"
    /\ UNCHANGED <<dir0, files0>>
    /\ UNCHANGED <<envVars, fsVars, pixVars, geoVars>>

PixIdle ==
    /\ ppc = "idle" /\ crop_img = <<>> /\ arr = <<>> /\ edge_pixels = <<>>
    /\ ocean_color = <<>> /\ result = <<>>

GeoIdle == gpc = "idle" /\ gh = 0 /\ gw = 0 /\ edge_index = <<>>

Init ==
    /\ mapFile \in {NoMap} \cup ImageSizes
    /\ order \in Orders
    /\ emptyRaises \in {"crop", "remove_ocean", "save"}
    /\ \/ dirState \in {"absent", "blocked"} /\ files = NoFiles
       \/ dirState = "present" /\ files \in {NoFiles, StaleFiles}
    /\ Fresh
    /\ run = 1 /\ dir0 = dirState /\ files0 = files
    /\ prevRun = [dir |-> dirState, files |-> files, ended |-> "never"]
    /\ PixIdle /\ GeoIdle

Next ==
    \/ MakeDirs \/ MakeDirsFails
    \/ OpenImage \/ OpenImageFails
    \/ CropRegion \/ CropRegionFails
    \/ RemoveOcean \/ RemoveOceanFails
    \/ SaveRegion \/ SaveRegionFails
    \/ Finish
    \/ Rerun

Spec == Init /\ [][Next]_vars

(***************************************************************************)
(* Properties of the run (specification Spec).                             *)
(***************************************************************************)
Ended == pc \in {"done", "aborted"}
Times(n) == Cardinality({ k \in 1..Len(written) : written[k] = n })

\* C1: the bounds the crop loop computes satisfy 0 <= x1 <= x2 <= W and
\* 0 <= y1 <= y2 <= H, for every region and every image size the loader returns.
C1_BoundsWithinImage ==
    /\ 0 <= box[1] /\ box[1] <= box[3] /\ box[3] <= W
    /\ 0 <= box[2] /\ box[2] <= box[4] /\ box[4] <= H

\* C4: a region whose clamped bounds give an empty crop is skipped and
\* reported; the run does not abort on it.
C4_EmptyCropSkipped == ~ (pc = "aborted" /\ abortCause = "empty crop")

\* C5 as stated: when the source image cannot be read, the run aborts with no
\* region cropped, no file written and no change to the filesystem, the
\* output directory included.
C5_AbortLeavesNoChange ==
    (pc = "aborted" /\ abortCause = "open") =>
        /\ written = <<>> /\ crop = NoCrop
        /\ files = prevRun.files
        /\ dirState = prevRun.dir

\* C5 as amended: when the source image cannot be read, the run aborts with
\* no region cropped and no file written or changed; the one change it has
\* made is that the output directory exists.
C5_AbortBeforeOutput ==
    (pc = "aborted" /\ abortCause = "open") =>
        /\ written = <<>> /\ crop = NoCrop /\ i = 0
        /\ files = prevRun.files
        /\ dirState = "present"

C5_Witness ==
    /\ pc = "aborted" /\ abortCause = "open"
    /\ prevRun.dir = "absent" /\ dirState = "present"

\* C6: for every non-empty crop each of the four edge groups of the border
\* sample holds at least one pixel.
C6_EveryEdgeGroupSampled ==
    (pc = "processed" /\ crop.w > 0 /\ crop.h > 0) =>
        /\ crop.groups.top >= 1 /\ crop.groups.bottom >= 1
        /\ crop.groups.left >= 1 /\ crop.groups.right >= 1

\* C7: a run that follows another run on the same map and table leaves the
\* output directory exactly as the earlier run left it.
C7_RerunIdempotent ==
    (run > 1 /\ Ended) => (files = prevRun.files /\ dirState = prevRun.dir)

C7_Witness ==
    /\ run > 1 /\ pc = "done" /\ Len(written) = NumIslands
    /\ files0 = StaleFiles /\ files # files0

\* What a run over the table in the order ord leaves in the output directory
\* fs, from the k-th region on.
RECURSIVE RunFiles(_, _, _)
RunFiles(ord, k, fs) ==
    IF k > NumIslands THEN fs
    ELSE LET r  == ISLANDS[ord[k]]
             bx == Bounds(r, mapFile[1], mapFile[2])
         IN  IF EmptyBox(bx)
             THEN IF emptyRaises = "save"
                  THEN [fs EXCEPT ![OutPath(r.name)] = Truncated]
                  ELSE fs
             ELSE RunFiles(ord, k + 1,
                      [fs EXCEPT ![OutPath(r.name)] =
                                    WriteFile(@, RemoveOceanOf(CropOf(r, bx)))])

FinalFiles(ord, fs) ==
    IF prevRun.dir = "blocked" \/ mapFile = NoMap THEN fs ELSE RunFiles(ord, 1, fs)

\* C8: whatever the order of the table, a run ends with the mapping from file
\* name to content that a run in the table's own order ends with.
C8_OrderIndependent ==
    Ended => files = FinalFiles(IdentityOrder, prevRun.files)

\* C9: at 'Done' every region of the table has its own file, written once in
\* this run from the crop of that region after background removal and alpha
\* smoothing, and the reported count is the number of files written.
C9_DoneHoldsAllRegionFiles ==
    pc = "done" =>
        /\ NumIslands = 17
        /\ \A k \in 1..NumIslands :
              LET n == ISLANDS[k].name
                  f == files[OutPath(n)]
              IN  /\ f.kind = "image"
                  /\ f.name = n /\ f.src = mapFile
                  /\ f.box = Bounds(ISLANDS[k], W, H)
                  /\ f.removed /\ f.smoothed
                  /\ Times(n) = 1
        /\ \A j, k \in 1..NumIslands :
              j # k => OutPath(ISLANDS[j].name) # OutPath(ISLANDS[k].name)
        /\ Len(written) = NumIslands
        /\ reported = Len(written)

C9_Witness ==
    pc = "done" /\ order = ReverseOrder /\ files0 = StaleFiles /\ reported = 17

(***************************************************************************)
(* remove_ocean, pixel by pixel.  An image is [h, w, px] with px a function *)
(* from the positions <<row, column>> to <<R, G, B, A>>.                    *)
(***************************************************************************)
Pos(h, w) == Span(0, h) \X Span(0, w)
RGB(p) == <<p[1], p[2], p[3]>>

MinOf(S) == CHOOSE x \in S : \A y \in S : x <= y

\* arr[rows, cols].reshape(-1, 3): the positions of a slice, row by row.
SliceSeq(rows, cols) ==
    LET nr == Cardinality(rows)
        nc == Cardinality(cols)
    IN  [k \in 1..(nr * nc) |->
            <<MinOf(rows) + ((k - 1) \div nc), MinOf(cols) + ((k - 1) % nc)>>]

\* A left slice that runs over all rows, the corners included.
LeftSliceWithCorners(h, w, b) == SliceSeq(AllCols(h), LeftCols(w, b))

TopSlice(h, w, b)    == SliceSeq(TopRows(h, b), AllCols(w))         \* line 44
BottomSlice(h, w, b) == SliceSeq(BottomRows(h, b), AllCols(w))      \* line 45
LeftSlice(h, w, b)   == SliceSeq(MidRows(h, b), LeftCols(w, b))     \* line 46
RightSlice(h, w, b)  == SliceSeq(MidRows(h, b), RightCols(w, b))    \* line 47

\* Lines 43-48: np.concatenate of the four slices, as positions.
EdgeIndex(h, w) ==
    LET b == BorderWidth(h, w) IN
    TopSlice(h, w, b) \o BottomSlice(h, w, b) \o LeftSlice(h, w, b) \o RightSlice(h, w, b)

\* Line 38: np.array(crop_img, dtype=np.float32); a byte becomes the float of
\* the same value.
ToFloat32(v) == v
AsArray(img) == [img EXCEPT !.px = [q \in DOMAIN img.px |->
                     [k \in 1..4 |-> ToFloat32(img.px[q][k])]]]

\* Line 64: arr.astype(np.uint8) truncates to a byte; Image.fromarray.
AsUint8(v) == v % 256
FromArray(a) == [a EXCEPT !.px = [q \in DOMAIN a.px |->
                     [k \in 1..4 |-> AsUint8(a.px[q][k])]]]

\* The k-th smallest value of a sequence of numbers.
Kth(vals, k) ==
    CHOOSE v \in { vals[j] : j \in 1..Len(vals) } :
        /\ Cardinality({ j \in 1..Len(vals) : vals[j] < v }) < k
        /\ k <= Cardinality({ j \in 1..Len(vals) : vals[j] <= v })

\* np.median of a non-empty sequence, times two (the median of an even number
\* of values is the mean of the two middle ones, a multiple of one half).
Median2(vals) ==
    LET n == Len(vals) IN
    IF n % 2 = 1 THEN 2 * Kth(vals, (n + 1) \div 2)
                 ELSE Kth(vals, n \div 2) + Kth(vals, (n \div 2) + 1)

\* Line 51: np.median(edge_pixels, axis=0), times two.
OceanColor(pixels) ==
    [k \in 1..3 |-> Median2([j \in 1..Len(pixels) |-> pixels[j][k]])]

\* Line 55, squared and times four: np.sum((arr[:,:,:3] - ocean_color) ** 2).
\* The squares are multiples of 1/4 below 2^24 and so exact in float32.
Dist2x4(p, oc2) ==
    (2 * p[1] - oc2[1]) * (2 * p[1] - oc2[1])
  + (2 * p[2] - oc2[2]) * (2 * p[2] - oc2[2])
  + (2 * p[3] - oc2[3]) * (2 * p[3] - oc2[3])

Threshold == 42

\* A threshold test that takes the distance 42 itself for ocean.
IsOceanInclusive(d2x4) == d2x4 <= 4 * Threshold * Threshold

\* Lines 55-58: diff = np.sqrt(...); is_ocean = diff < 42.  The square root is
\* increasing and sqrt(42 * 42) is exactly 42, so the test is one on squares.
IsOcean(d2x4) == d2x4 < 4 * Threshold * Threshold

\* Lines 60-62: new_alpha[is_ocean] = 0; arr[:,:,3] = new_alpha
MaskAlpha(a, oc2) ==
    [a EXCEPT !.px = [q \in DOMAIN a.px |->
        IF IsOcean(Dist2x4(a.px[q], oc2))
        THEN [a.px[q] EXCEPT ![4] = 0]
        ELSE a.px[q]]]

Clamp(v, lo, hi) == Max(lo, Min(v, hi))

\* Line 68: ImageFilter.GaussianBlur(radius=1.5) on one band.  The library
\* runs box filters over the band with its edge pixels repeated outwards;
\* here one 3 x 3 box with the same edge rule, rounded to a byte.
GaussianBlur(h, w, band) ==
    [q \in Pos(h, w) |->
        LET sum9 == band[<<Clamp(q[1] - 1, 0, h - 1), Clamp(q[2] - 1, 0, w - 1)>>]
                  + band[<<Clamp(q[1] - 1, 0, h - 1), q[2]>>]
                  + band[<<Clamp(q[1] - 1, 0, h - 1), Clamp(q[2] + 1, 0, w - 1)>>]
                  + band[<<q[1], Clamp(q[2] - 1, 0, w - 1)>>]
                  + band[q]
                  + band[<<q[1], Clamp(q[2] + 1, 0, w - 1)>>]
                  + band[<<Clamp(q[1] + 1, 0, h - 1), Clamp(q[2] - 1, 0, w - 1)>>]
                  + band[<<Clamp(q[1] + 1, 0, h - 1), q[2]>>]
                  + band[<<Clamp(q[1] + 1, 0, h - 1), Clamp(q[2] + 1, 0, w - 1)>>]
        IN  (sum9 + 4) \div 9]

Band(img, k) == [q \in DOMAIN img.px |-> img.px[q][k]]

\* A smoothing that filters the whole image instead of its alpha band.
SmoothAllBands(img) ==
    [img EXCEPT !.px = [q \in DOMAIN img.px |->
        [k \in 1..4 |-> GaussianBlur(img.h, img.w, Band(img, k))[q]]]]

\* Lines 67-69: alpha = result.split()[3]; alpha = alpha.filter(...);
\* result.putalpha(alpha)
SmoothAlpha(img) ==
    LET alpha == GaussianBlur(img.h, img.w, Band(img, 4)) IN
    [img EXCEPT !.px = [q \in DOMAIN img.px |-> [img.px[q] EXCEPT ![4] = alpha[q]]]]

(***************************************************************************)
(* The crops remove_ocean is run on: an ocean colour with an island of one *)
(* of a few shapes in another colour, opaque or with a varying alpha.      *)
(***************************************************************************)
MaxDim == 5

Palette ==
    { <<100, 100, 100>>, <<142, 100, 100>>, <<141, 100, 100>>,
      <<124, 124, 124>>, <<125, 124, 124>>, <<255, 0, 0>> }

Shapes == {"none", "centre", "diagonal", "left", "checker"}

OnIsland(shape, h, w, q) ==
    CASE shape = "none"     -> FALSE
      [] shape = "centre"   -> q[1] >= 1 /\ q[1] < Max(h - 1, 2) /\ q[2] >= 1 /\ q[2] < Max(w - 1, 2)
      [] shape = "diagonal" -> q[1] = q[2]
      [] shape = "left"     -> q[2] = 0
      [] shape = "checker"  -> (q[1] + q[2]) % 2 = 1

AlphaAt(opaque, q) ==
    IF opaque THEN 255
    ELSE CASE (q[1] + 2 * q[2]) % 3 = 0 -> 255
           [] (q[1] + 2 * q[2]) % 3 = 1 -> 128
           [] (q[1] + 2 * q[2]) % 3 = 2 -> 0

Picture(h, w, sea, land, shape, opaque) ==
    [ h |-> h, w |-> w,
      px |-> [q \in Pos(h, w) |->
                LET c == IF OnIsland(shape, h, w, q) THEN land ELSE sea
                IN  <<c[1], c[2], c[3], AlphaAt(opaque, q)>>] ]

Crops ==
    { Picture(h, w, sea, land, shape, opaque) :
        h \in 1..MaxDim, w \in 1..MaxDim, sea \in Palette, land \in Palette,
        shape \in Shapes, opaque \in BOOLEAN }

PipeIdle ==
    /\ mapFile = NoMap /\ order = IdentityOrder /\ emptyRaises = "crop"
    /\ dirState = "absent" /\ files = NoFiles
    /\ pc = "idle" /\ W = 0 /\ H = 0 /\ i = 0 /\ box = NoBox /\ crop = NoCrop
    /\ written = <<>> /\ reported = 0 /\ abortCause = "none"
    /\ run = 0 /\ dir0 = "absent" /\ files0 = NoFiles
    /\ prevRun = [dir |-> "absent", files |-> NoFiles, ended |-> "never"]

\* Lines 38-51: the array, the border sample and its median.
SampleBorder ==
    /\ ppc = "call"
    /\ arr' = AsArray(crop_img)
    /\ edge_pixels' = [k \in 1..Len(EdgeIndex(crop_img.h, crop_img.w)) |->
                          RGB(arr'.px[EdgeIndex(crop_img.h, crop_img.w)[k]])]
    /\ ocean_color' = OceanColor(edge_pixels')
    /\ ppc' = "sampled"
    /\ UNCHANGED <<crop_img, result>>
    /\ UNCHANGED <<pipeVars, geoVars>>

\* Lines 55-62: the pixels near the ocean colour lose their alpha.
MaskOcean ==
    /\ ppc = "sampled"
    /\ arr' = MaskAlpha(arr, ocean_color)
    /\ ppc' = "masked"
    /\ UNCHANGED <<crop_img, edge_pixels, ocean_color, result>>
    /\ UNCHANGED <<pipeVars, geoVars>>

\* Lines 64-71: back to an image, the alpha band blurred, and returned.
SmoothAndReturn ==
    /\ ppc = "masked"
    /\ result' = SmoothAlpha(FromArray(arr))
    /\ ppc' = "returned"
    /\ UNCHANGED <<crop_img, arr, edge_pixels, ocean_color>>
    /\ UNCHANGED <<pipeVars, geoVars>>

InitPix ==
    /\ PipeIdle /\ GeoIdle
    /\ ppc = "call"
    /\ crop_img \in Crops
    /\ arr = <<>> /\ edge_pixels = <<>> /\ ocean_color = <<>> /\ result = <<>>

NextPix == SampleBorder \/ MaskOcean \/ SmoothAndReturn

SpecPix == InitPix /\ [][NextPix]_vars

(***************************************************************************)
(* Properties of remove_ocean (specification SpecPix).                     *)
(***************************************************************************)
\* Twice the values of channel k over the border sample.
Sample2(k) == [j \in 1..Len(edge_pixels) |-> 2 * edge_pixels[j][k]]

\* m2 is twice a median of the sample: at most half of it lies on either side.
IsMedian2(m2, vals2) ==
    /\ 2 * Cardinality({ j \in 1..Len(vals2) : vals2[j] < m2 }) <= Len(vals2)
    /\ 2 * Cardinality({ j \in 1..Len(vals2) : vals2[j] > m2 }) <= Len(vals2)

\* Four times the squared distance of the input pixel at q to the ocean colour.
InputDist2x4(q) ==
    LET p == crop_img.px[q] IN
      (2 * p[1] - ocean_color[1]) * (2 * p[1] - ocean_color[1])
    + (2 * p[2] - ocean_color[2]) * (2 * p[2] - ocean_color[2])
    + (2 * p[3] - ocean_color[3]) * (2 * p[3] - ocean_color[3])

\* C2: before the blur, a pixel has alpha 0 when its distance to the median
\* colour of the border sample is below 42 (4 * 42 * 42 = 7056 on the doubled
\* values), and the alpha of the input crop otherwise, the distance 42 included.
C2_AlphaZeroExactlyBelow42 ==
    ppc = "masked" =>
        /\ \A k \in 1..3 : IsMedian2(ocean_color[k], Sample2(k))
        /\ \A q \in Pos(crop_img.h, crop_img.w) :
              /\ InputDist2x4(q) < 7056  => arr.px[q][4] = 0
              /\ InputDist2x4(q) >= 7056 => arr.px[q][4] = crop_img.px[q][4]

C2_Witness ==
    /\ ppc = "masked"
    /\ \E q \in Pos(crop_img.h, crop_img.w) :
          InputDist2x4(q) = 7056 /\ arr.px[q][4] = 255
    /\ \E q \in Pos(crop_img.h, crop_img.w) :
          InputDist2x4(q) < 7056 /\ crop_img.px[q][4] = 255 /\ arr.px[q][4] = 0

\* C3: the red, green and blue values of every pixel remove_ocean returns are
\* those of the same pixel of the input crop.
C3_ColourChannelsKept ==
    ppc = "returned" =>
        /\ result.h = crop_img.h /\ result.w = crop_img.w
        /\ \A q \in Pos(crop_img.h, crop_img.w) :
              RGB(result.px[q]) = RGB(crop_img.px[q])

C3_Witness ==
    /\ ppc = "returned"
    /\ \E q \in Pos(crop_img.h, crop_img.w) :
          /\ result.px[q][4] # crop_img.px[q][4]
          /\ result.px[q][4] # arr.px[q][4]
    /\ \E q, t \in Pos(crop_img.h, crop_img.w) :
          RGB(crop_img.px[q]) # RGB(crop_img.px[t])

(***************************************************************************)
(* The border slices as positions (specification SpecGeo).                 *)
(***************************************************************************)
MaxGeoDim == 36

\* Line 43-48, on a crop of gh x gw pixels.
SampleIndex ==
    /\ gpc = "call"
    /\ edge_index' = EdgeIndex(gh, gw)
    /\ gpc' = "sampled"
    /\ UNCHANGED <<gh, gw>>
    /\ UNCHANGED <<pipeVars, pixVars>>

InitGeo ==
    /\ PipeIdle /\ PixIdle
    /\ gpc = "call"
    /\ gh \in 1..MaxGeoDim /\ gw \in 1..MaxGeoDim
    /\ edge_index = <<>>

NextGeo == SampleIndex

SpecGeo == InitGeo /\ [][NextGeo]_vars

SeqSet(sq) == { sq[k] : k \in 1..Len(sq) }

\* The pixels within b of an edge of an h x w crop.
BorderSet(h, w, b) ==
    { q \in Pos(h, w) : q[1] < b \/ q[1] >= h - b \/ q[2] < b \/ q[2] >= w - b }

\* C10: for a crop at least 4 pixels high and wide, the four slices are
\* pairwise disjoint and together are the pixels within b of an edge, each
\* entering the sample once.
C10_SlicesPartitionBorder ==
    (gpc = "sampled" /\ gh >= 4 /\ gw >= 4) =>
        LET b == Min(8, Min(gh \div 4, gw \div 4)) IN
        /\ Cardinality(SeqSet(edge_index)) = Len(edge_index)
        /\ SeqSet(edge_index) = BorderSet(gh, gw, b)
        /\ Len(edge_index) = 2 * b * gw + 2 * b * (gh - 2 * b)

C10_Witness ==
    /\ gpc = "sampled" /\ gh = 36 /\ gw = 33
    /\ Len(edge_index) = 2 * 8 * 33 + 2 * 8 * 20
    /\ <<8, 8>> \notin SeqSet(edge_index)
    /\ <<7, 8>> \in SeqSet(edge_index)

====
